---- MODULE Spec2Model ----
(***************************************************************************)
(* The SupabaseStudio construct (src/src/supabase-studio/index.ts): the    *)
(* constructor assembles, statement by statement, a GitHub source binding, *)
(* an IAM role with three read grants, an Amplify build spec, the Amplify  *)
(* App, its production branch, the SSR logging policy and the production   *)
(* branch URL.                                                             *)
(*                                                                         *)
(* Text that the code builds with template literals is a sequence of       *)
(* tokens, so that `https://${branch}.${domain}` is the concatenation of   *)
(* its parts and an IAM resource pattern can be matched token by token.    *)
(***************************************************************************)
EXTENDS Integers, Sequences, FiniteSets, TLC

VARIABLES
    pc,             \* index in Steps of the constructor statement to run next
    status,         \* "running", "completed" or "aborted" (a statement threw)
    nodePath,       \* this.node.path: the ids from the root to this construct
    props,          \* the SupabaseStudioProps the constructor was given
    store,          \* the values kept in Secrets Manager / Parameter Store
    assignedAppId,  \* the identifier the platform assigns to the App
    gitHubProvider, \* const gitHubProvider
    role,           \* const role
    grants,         \* the read grants made to the role
    buildSpec,      \* const buildSpec
    app,            \* this.app
    prodBranch,     \* this.prodBranch
    amplifySSRLoggingPolicy, \* const amplifySSRLoggingPolicy
    prodBranchUrl,  \* this.prodBranchUrl
    prev            \* inputs and produced configuration of the previous pass

vars == <<pc, status, nodePath, props, store, assignedAppId, gitHubProvider,
          role, grants, buildSpec, app, prodBranch, amplifySSRLoggingPolicy,
          prodBranchUrl, prev>>

(***************************************************************************)
(* Bounds and input sets                                                   *)
(***************************************************************************)
NumAppIds == 2

Absent == "undefined"

NodePaths == { <<"Web", "/", "App">>, <<"Stack", "/", "Studio">> }
SourceBranches == { Absent, "develop" }
AppRoots == { Absent, "apps/www" }
SupabaseUrls == { "https://api.one.example", "https://api.two.example" }
SecretArns == { "arn:secret:db-A", "arn:secret:db-B" }
ParameterNames == { "/supabase/key-1", "/supabase/key-2" }
Regions == { "us-east-1", "eu-west-1" }
AppIds == { "d" \o ToString(i) : i \in 1..NumAppIds }
Stores ==
    { [password |-> "pw-1", anonKey |-> "anon-1", serviceKey |-> "svc-1", githubToken |-> "ghp-1"],
      [password |-> "pw-2", anonKey |-> "anon-2", serviceKey |-> "svc-2", githubToken |-> "ghp-2"] }

PropsSet ==
    [ sourceBranch   : SourceBranches,
      appRoot        : AppRoots,
      supabaseUrl    : SupabaseUrls,
      dbSecret       : [secretArn : SecretArns],
      anonKey        : [parameterName : ParameterNames],
      serviceRoleKey : [parameterName : ParameterNames, env : [region : Regions]] ]

Null == [null |-> TRUE]

(***************************************************************************)
(* Constants of the constructor                                            *)
(***************************************************************************)
buildImage == "public.ecr.aws/sam/build-nodejs22.x:1.140.0-20250605234713"
appRoot == "apps/studio"

\* cdk.Aws pseudo parameters
PARTITION == "${AWS::Partition}"
REGION == "${AWS::Region}"
ACCOUNT_ID == "${AWS::AccountId}"

\* The domain suffix of App.defaultDomain
PlatformDomain == "amplifyapp.com"


(***************************************************************************)
(* Pure helpers                                                            *)
(***************************************************************************)
\* this.node.path.replace(/\//g, ''): the path with every slash removed
RECURSIVE Join(_)
Join(tokens) ==
    IF tokens = <<>> THEN "" ELSE Head(tokens) \o Join(Tail(tokens))

IsNotSlash(t) == t /= "/"

AppName(path) == Join(SelectSeq(path, IsNotSlash))

\* cdk.SecretValue.secretsManager('github-token', { jsonField: 'token' }):
\* a dynamic reference to the secret, resolved at deployment
SecretsManagerRef(secretId, jsonField) ==
    [ref |-> "secretsmanager", secretId |-> secretId, jsonField |-> jsonField]

\* a slip that would inline the token read from the store
OAuthTokenPlainText == store.githubToken

OAuthToken == SecretsManagerRef("github-token", "token")

\* a slip that would bind the upstream repository
GitHubSourceUpstream == [owner |-> "supabase", repository |-> "supabase"]

GitHubSource == [owner |-> "ProvorovOleksii", repository |-> "supabase"]

\* the preBuild commands: the three fetches name the environment variable that
\* holds the identifier to fetch
PreBuildCommands ==
    << [op |-> "fetch-secret", out |-> "POSTGRES_PASSWORD", idVar |-> "DB_SECRET_ARN",
        regionVar |-> Absent, field |-> "password"],
       [op |-> "fetch-parameter", out |-> "SUPABASE_ANON_KEY", idVar |-> "ANON_KEY_NAME",
        regionVar |-> "SUPABASE_REGION", field |-> "Parameter.Value"],
       [op |-> "fetch-parameter", out |-> "SUPABASE_SERVICE_KEY", idVar |-> "SERVICE_KEY_NAME",
        regionVar |-> "SUPABASE_REGION", field |-> "Parameter.Value"],
       [op |-> "sh", text |-> "env | grep -e STUDIO_PG_META_URL >> .env.production"],
       [op |-> "sh", text |-> "env | grep -e SUPABASE_ >> .env.production"],
       [op |-> "sh", text |-> "env | grep -e NEXT_PUBLIC_ >> .env.production"],
       [op |-> "sh", text |-> "cd ../"],
       [op |-> "sh", text |-> "export NODE_OPTIONS='--max-old-space-size=12000'"],
       [op |-> "sh", text |-> "corepack enable"],
       [op |-> "sh", text |-> "corepack prepare pnpm@latest --activate"],
       [op |-> "sh", text |-> "pnpm install --config.ignore-engines=true"] >>

BuildCommands ==
    << [op |-> "sh", text |-> "pnpm exec turbo run build --filter=studio..."],
       [op |-> "sh", text |-> "pnpm install --prod"] >>

\* a copy-paste slip: ANON_KEY_NAME takes the service-role key's name
AppEnvironmentKeySlip(p) ==
    [ NODE_OPTIONS              |-> "--max-old-space-size=12000",
      AMPLIFY_DIFF_DEPLOY       |-> "false",
      _CUSTOM_IMAGE             |-> buildImage,
      STUDIO_PG_META_URL        |-> p.supabaseUrl \o "/pg",
      SUPABASE_URL              |-> p.supabaseUrl,
      SUPABASE_PUBLIC_URL       |-> p.supabaseUrl,
      SUPABASE_REGION           |-> p.serviceRoleKey.env.region,
      DB_SECRET_ARN             |-> p.dbSecret.secretArn,
      ANON_KEY_NAME             |-> p.serviceRoleKey.parameterName,
      SERVICE_KEY_NAME          |-> p.serviceRoleKey.parameterName,
      AMPLIFY_MONOREPO_APP_ROOT |-> appRoot ]

\* the environmentVariables of the App
AppEnvironment(p) ==
    [ NODE_OPTIONS              |-> "--max-old-space-size=12000",
      AMPLIFY_DIFF_DEPLOY       |-> "false",
      _CUSTOM_IMAGE             |-> buildImage,
      STUDIO_PG_META_URL        |-> p.supabaseUrl \o "/pg",
      SUPABASE_URL              |-> p.supabaseUrl,
      SUPABASE_PUBLIC_URL       |-> p.supabaseUrl,
      SUPABASE_REGION           |-> p.serviceRoleKey.env.region,
      DB_SECRET_ARN             |-> p.dbSecret.secretArn,
      ANON_KEY_NAME             |-> p.anonKey.parameterName,
      SERVICE_KEY_NAME          |-> p.serviceRoleKey.parameterName,
      AMPLIFY_MONOREPO_APP_ROOT |-> appRoot ]

CustomRules ==
    << [source |-> "/<*>", target |-> "/index.html", status |-> "NOT_FOUND_REWRITE"] >>

\* the environmentVariables given to addBranch
SiteUrl(appId) == "https://main." \o appId \o "." \o PlatformDomain

\* a slip that would let props.appRoot reach the branch overlay
BranchEnvironmentFromProps(appId) ==
    [ NEXT_PUBLIC_SITE_URL      |-> SiteUrl(appId),
      AMPLIFY_MONOREPO_APP_ROOT |-> IF props.appRoot = Absent THEN appRoot ELSE props.appRoot ]

\* a slip that would let props.sourceBranch name the branch
BranchNameFromProps == IF props.sourceBranch = Absent THEN "master" ELSE props.sourceBranch

BranchName == "master"

BranchEnvironment(appId) ==
    [ NEXT_PUBLIC_SITE_URL      |-> SiteUrl(appId),
      AMPLIFY_MONOREPO_APP_ROOT |-> appRoot ]

\* the resource patterns of the three policy statements
LogsArnPrefix == << "arn:", PARTITION, ":logs:", REGION, ":", ACCOUNT_ID, ":log-group:" >>

\* a slip that would open the PushLogs statement to every application
PushLogsResourceAnyApp(appId) ==
    LogsArnPrefix \o << "/aws/amplify/", "*", ":log-stream:", "*" >>

PushLogsResource(appId) ==
    LogsArnPrefix \o << "/aws/amplify/", appId, ":log-stream:", "*" >>

CreateLogGroupResource == LogsArnPrefix \o << "/aws/amplify/", "*" >>

DescribeLogGroupsResource == LogsArnPrefix \o << "*" >>

PolicyStatements(appId) ==
    << [sid |-> "PushLogs",
        actions |-> {"logs:CreateLogStream", "logs:PutLogEvents"},
        resources |-> { PushLogsResource(appId) }],
       [sid |-> "CreateLogGroup",
        actions |-> {"logs:CreateLogGroup"},
        resources |-> { CreateLogGroupResource }],
       [sid |-> "DescribeLogGroups",
        actions |-> {"logs:DescribeLogGroups"},
        resources |-> { DescribeLogGroupsResource }] >>

\* a slip that would repeat the literal of NEXT_PUBLIC_SITE_URL
BranchUrlMain(branchName, defaultDomain) == "https://main." \o defaultDomain

\* `https://${this.prodBranch.branchName}.${this.app.defaultDomain}`
BranchUrl(branchName, defaultDomain) == "https://" \o branchName \o "." \o defaultDomain

(***************************************************************************)
(* The statements of the constructor, in the order of the source           *)
(***************************************************************************)
\* a slip that would build the policy before the App it names
StepsPolicyFirst ==
    << "gitHubProvider", "role", "grantDbSecret", "grantAnonKey", "grantServiceRoleKey",
       "buildSpec", "policy", "attachToRole", "app", "overridePlatform", "addBranch",
       "addEnvironment", "overrideFramework", "prodBranchUrl" >>

Steps ==
    << "gitHubProvider", "role", "grantDbSecret", "grantAnonKey", "grantServiceRoleKey",
       "buildSpec", "app", "overridePlatform", "addBranch", "addEnvironment",
       "overrideFramework", "policy", "attachToRole", "prodBranchUrl" >>

At(step) == status = "running" /\ pc \in 1..Len(Steps) /\ Steps[pc] = step

Advance ==
    /\ pc' = pc + 1
    /\ status' = IF pc + 1 > Len(Steps) THEN "completed" ELSE "running"

\* a statement that reads a binding which holds nothing yet throws, and the
\* constructor ends there
Throw ==
    /\ status' = "aborted"
    /\ UNCHANGED <<pc, gitHubProvider, role, grants, buildSpec, app, prodBranch,
                   amplifySSRLoggingPolicy, prodBranchUrl>>

Inputs == <<nodePath, props, store, assignedAppId, prev>>

Init ==
    /\ pc = 1
    /\ status = "running"
    /\ nodePath \in NodePaths
    /\ props \in PropsSet
    /\ store \in Stores
    /\ assignedAppId \in AppIds
    /\ gitHubProvider = Null
    /\ role = Null
    /\ grants = {}
    /\ buildSpec = Null
    /\ app = Null
    /\ prodBranch = Null
    /\ amplifySSRLoggingPolicy = Null
    /\ prodBranchUrl = Absent
    /\ prev = Null

NewGitHubProvider ==
    /\ At("gitHubProvider")
    /\ gitHubProvider' =
          [ owner      |-> GitHubSource.owner,
            repository |-> GitHubSource.repository,
            oauthToken |-> OAuthToken ]
    /\ Advance
    /\ UNCHANGED <<role, grants, buildSpec, app, prodBranch, amplifySSRLoggingPolicy,
                   prodBranchUrl>>
    /\ UNCHANGED Inputs

NewRole ==
    /\ At("role")
    /\ role' =
          [ id          |-> "Role",
            description |-> "The service role that will be used by AWS Amplify for SSR app logging.",
            path        |-> "/service-role/",
            assumedBy   |-> "amplify.amazonaws.com",
            policies    |-> {} ]
    /\ Advance
    /\ UNCHANGED <<gitHubProvider, grants, buildSpec, app, prodBranch,
                   amplifySSRLoggingPolicy, prodBranchUrl>>
    /\ UNCHANGED Inputs

GrantRead(kind, resource) ==
    /\ IF role = Null
       THEN Throw
       ELSE /\ grants' = grants \cup
                  { [grantee |-> role.id, kind |-> kind, resource |-> resource] }
            /\ Advance
            /\ UNCHANGED <<gitHubProvider, role, buildSpec, app, prodBranch,
                           amplifySSRLoggingPolicy, prodBranchUrl>>
    /\ UNCHANGED Inputs

GrantDbSecret ==
    /\ At("grantDbSecret")
    /\ GrantRead("secret", props.dbSecret.secretArn)

GrantAnonKey ==
    /\ At("grantAnonKey")
    /\ GrantRead("parameter", props.anonKey.parameterName)

GrantServiceRoleKey ==
    /\ At("grantServiceRoleKey")
    /\ GrantRead("parameter", props.serviceRoleKey.parameterName)

MakeBuildSpec ==
    /\ At("buildSpec")
    /\ buildSpec' =
          [ version |-> 1,
            applications |->
              << [ appRoot |-> appRoot,
                   frontend |->
                     [ phases    |-> [ preBuild |-> [commands |-> PreBuildCommands],
                                       build    |-> [commands |-> BuildCommands] ],
                       artifacts |-> [ baseDirectory |-> ".next/standalone",
                                       files |-> <<"**/*">> ],
                       cache     |-> [ paths |-> <<"node_modules/**/*">> ] ] ] >> ]
    /\ Advance
    /\ UNCHANGED <<gitHubProvider, role, grants, app, prodBranch,
                   amplifySSRLoggingPolicy, prodBranchUrl>>
    /\ UNCHANGED Inputs


NewApp ==
    /\ At("app")
    /\ IF role = Null \/ gitHubProvider = Null \/ buildSpec = Null
       THEN Throw
       ELSE /\ app' =
                  [ appName              |-> AppName(nodePath),
                    role                 |-> role.id,
                    sourceCodeProvider   |-> gitHubProvider,
                    buildSpec            |-> buildSpec,
                    environmentVariables |-> AppEnvironment(props),
                    customRules          |-> CustomRules,
                    platform             |-> "WEB",
                    appId                |-> assignedAppId,
                    defaultDomain        |-> assignedAppId \o "." \o PlatformDomain ]
            /\ Advance
            /\ UNCHANGED <<gitHubProvider, role, grants, buildSpec, prodBranch,
                           amplifySSRLoggingPolicy, prodBranchUrl>>
    /\ UNCHANGED Inputs

\* a slip that would leave the override out
OverridePlatformOmitted ==
    /\ At("overridePlatform")
    /\ Advance
    /\ UNCHANGED <<gitHubProvider, role, grants, buildSpec, app, prodBranch,
                   amplifySSRLoggingPolicy, prodBranchUrl>>
    /\ UNCHANGED Inputs

\* (this.app.node.defaultChild as cdk.CfnResource).addPropertyOverride('Platform', 'WEB_COMPUTE')
OverridePlatform ==
    /\ At("overridePlatform")
    /\ IF app = Null
       THEN Throw
       ELSE /\ app' = [app EXCEPT !.platform = "WEB_COMPUTE"]
            /\ Advance
            /\ UNCHANGED <<gitHubProvider, role, grants, buildSpec, prodBranch,
                           amplifySSRLoggingPolicy, prodBranchUrl>>
    /\ UNCHANGED Inputs

AddBranch ==
    /\ At("addBranch")
    /\ IF app = Null
       THEN Throw
       ELSE /\ prodBranch' =
                  [ id                   |-> "ProdBranch",
                    branchName           |-> BranchName,
                    stage                |-> "PRODUCTION",
                    autoBuild            |-> TRUE,
                    environmentVariables |-> BranchEnvironment(app.appId),
                    framework            |-> Absent ]
            /\ Advance
            /\ UNCHANGED <<gitHubProvider, role, grants, buildSpec, app,
                           amplifySSRLoggingPolicy, prodBranchUrl>>
    /\ UNCHANGED Inputs

\* this.prodBranch.addEnvironment('AMPLIFY_MONOREPO_APP_ROOT', appRoot)
AddEnvironment ==
    /\ At("addEnvironment")
    /\ IF prodBranch = Null
       THEN Throw
       ELSE /\ prodBranch' =
                  [prodBranch EXCEPT !.environmentVariables.AMPLIFY_MONOREPO_APP_ROOT = appRoot]
            /\ Advance
            /\ UNCHANGED <<gitHubProvider, role, grants, buildSpec, app,
                           amplifySSRLoggingPolicy, prodBranchUrl>>
    /\ UNCHANGED Inputs

\* (this.prodBranch.node.defaultChild as cdk.CfnResource).addPropertyOverride('Framework', 'Next.js - SSR')
OverrideFramework ==
    /\ At("overrideFramework")
    /\ IF prodBranch = Null
       THEN Throw
       ELSE /\ prodBranch' = [prodBranch EXCEPT !.framework = "Next.js - SSR"]
            /\ Advance
            /\ UNCHANGED <<gitHubProvider, role, grants, buildSpec, app,
                           amplifySSRLoggingPolicy, prodBranchUrl>>
    /\ UNCHANGED Inputs

NewPolicy ==
    /\ At("policy")
    /\ IF app = Null
       THEN Throw
       ELSE /\ amplifySSRLoggingPolicy' =
                  [ policyName |-> "AmplifySSRLoggingPolicy-" \o app.appId,
                    statements |-> PolicyStatements(app.appId) ]
            /\ Advance
            /\ UNCHANGED <<gitHubProvider, role, grants, buildSpec, app, prodBranch,
                           prodBranchUrl>>
    /\ UNCHANGED Inputs

\* amplifySSRLoggingPolicy.attachToRole(role)
AttachToRole ==
    /\ At("attachToRole")
    /\ IF amplifySSRLoggingPolicy = Null \/ role = Null
       THEN Throw
       ELSE /\ role' = [role EXCEPT !.policies = @ \cup {amplifySSRLoggingPolicy.policyName}]
            /\ Advance
            /\ UNCHANGED <<gitHubProvider, grants, buildSpec, app, prodBranch,
                           amplifySSRLoggingPolicy, prodBranchUrl>>
    /\ UNCHANGED Inputs

SetProdBranchUrl ==
    /\ At("prodBranchUrl")
    /\ IF prodBranch = Null \/ app = Null
       THEN Throw
       ELSE /\ prodBranchUrl' = BranchUrl(prodBranch.branchName, app.defaultDomain)
            /\ Advance
            /\ UNCHANGED <<gitHubProvider, role, grants, buildSpec, app, prodBranch,
                           amplifySSRLoggingPolicy>>
    /\ UNCHANGED Inputs

(***************************************************************************)
(* The configuration a completed pass has produced, and a further pass     *)
(***************************************************************************)
Config ==
    [ sourceCodeProvider |-> gitHubProvider,
      role               |-> role,
      grants             |-> grants,
      buildSpec          |-> buildSpec,
      app                |-> app,
      prodBranch         |-> prodBranch,
      policy             |-> amplifySSRLoggingPolicy,
      prodBranchUrl      |-> prodBranchUrl ]

\* the inputs that identify things: everything but the two optional props and
\* the stored secret values
Identifiers(np, p, id) ==
    [ nodePath       |-> np,
      supabaseUrl    |-> p.supabaseUrl,
      dbSecret       |-> p.dbSecret,
      anonKey        |-> p.anonKey,
      serviceRoleKey |-> p.serviceRoleKey,
      appId          |-> id ]

IdentifierFields ==
    {"nodePath", "supabaseUrl", "dbSecret", "anonKey", "serviceRoleKey", "appId"}

\* the stack is synthesised again after an edit of its inputs: the secrets were
\* rotated or the optional props edited (the identifiers kept), or exactly one
\* identifier was changed (the rest kept)
IdentifiersKept(np, p, s, id) ==
    Identifiers(np, p, id) = Identifiers(nodePath, props, assignedAppId)

OneIdentifierChanged(np, p, s, id) ==
    LET old == Identifiers(nodePath, props, assignedAppId)
        new == Identifiers(np, p, id)
    IN  /\ s = store
        /\ p.sourceBranch = props.sourceBranch
        /\ p.appRoot = props.appRoot
        /\ Cardinality({f \in IdentifierFields : new[f] /= old[f]}) = 1

Resynth ==
    /\ status = "completed"
    /\ \/ \E sb \in SourceBranches, ar \in AppRoots, s \in Stores :
             /\ props' = [props EXCEPT !.sourceBranch = sb, !.appRoot = ar]
             /\ store' = s
             /\ IdentifiersKept(nodePath, props', s, assignedAppId)
             /\ UNCHANGED <<nodePath, assignedAppId>>
       \/ \E np \in NodePaths, id \in AppIds, su \in SupabaseUrls,
             db \in [secretArn : SecretArns], ak \in [parameterName : ParameterNames],
             sk \in [parameterName : ParameterNames, env : [region : Regions]] :
             /\ props' = [props EXCEPT !.supabaseUrl = su, !.dbSecret = db,
                                       !.anonKey = ak, !.serviceRoleKey = sk]
             /\ OneIdentifierChanged(np, props', store, id)
             /\ nodePath' = np
             /\ assignedAppId' = id
             /\ UNCHANGED store
    /\ prev' = [ nodePath |-> nodePath, props |-> props, store |-> store,
                 appId |-> assignedAppId, config |-> Config ]
    /\ pc' = 1
    /\ status' = "running"
    /\ gitHubProvider' = Null
    /\ role' = Null
    /\ grants' = {}
    /\ buildSpec' = Null
    /\ app' = Null
    /\ prodBranch' = Null
    /\ amplifySSRLoggingPolicy' = Null
    /\ prodBranchUrl' = Absent

Next ==
    \/ NewGitHubProvider
    \/ NewRole
    \/ GrantDbSecret
    \/ GrantAnonKey
    \/ GrantServiceRoleKey
    \/ MakeBuildSpec
    \/ NewApp
    \/ OverridePlatform
    \/ AddBranch
    \/ AddEnvironment
    \/ OverrideFramework
    \/ NewPolicy
    \/ AttachToRole
    \/ SetProdBranchUrl
    \/ Resynth

Spec == Init /\ [][Next]_vars

TypeOK ==
    /\ pc \in 1..(Len(Steps) + 1)
    /\ status \in {"running", "completed", "aborted"}
    /\ props \in PropsSet
    /\ store \in Stores


(***************************************************************************)
(* Vocabulary of the properties                                            *)
(***************************************************************************)
Completed == status = "completed"

\* an IAM resource pattern matches an ARN: "*" stands for any run of tokens
RECURSIVE Matches(_, _)
Matches(pattern, arn) ==
    IF pattern = <<>> THEN arn = <<>>
    ELSE IF Head(pattern) = "*"
         THEN \/ Matches(Tail(pattern), arn)
              \/ arn /= <<>> /\ Matches(pattern, Tail(arn))
         ELSE /\ arn /= <<>>
              /\ Head(arn) = Head(pattern)
              /\ Matches(Tail(pattern), Tail(arn))

StreamNames == {"2026/11/05/build"}
ForeignLogGroups == {"/aws/lambda/fn", "/ecs/web"}

LogGroupArn(appId) == LogsArnPrefix \o << "/aws/amplify/", appId >>
LogStreamArn(appId, stream) == LogGroupArn(appId) \o << ":log-stream:", stream >>
ForeignLogGroupArn(name) == LogsArnPrefix \o << name >>

Covers(statement, arn) == \E r \in statement.resources : Matches(r, arn)

\* the statement has a resource pattern that matches the log group of
\* application a, or a log stream in it
ReachesApp(statement, a) ==
    \/ Covers(statement, LogGroupArn(a))
    \/ \E n \in StreamNames : Covers(statement, LogStreamArn(a, n))

\* the application identifiers a statement's resource patterns name
NamedApps(statement) ==
    {a \in AppIds : \E r \in statement.resources : \E i \in 1..Len(r) : r[i] = a}

Range(seq) == {seq[i] : i \in 1..Len(seq)}

\* the environment a build of the production branch runs in: the App's
\* variables, overlaid by the branch's
BuildTimeEnv ==
    LET appEnv == app.environmentVariables
        brEnv  == IF prodBranch = Null THEN << >> ELSE prodBranch.environmentVariables
    IN  [k \in DOMAIN appEnv \cup DOMAIN brEnv |->
            IF k \in DOMAIN brEnv THEN brEnv[k] ELSE appEnv[k]]

FetchCommands ==
    {c \in Range(app.buildSpec.applications[1].frontend.phases.preBuild.commands) :
        c.op \in {"fetch-secret", "fetch-parameter"}}

\* what the pre-build script fetches, and what the role was granted to read
Fetched ==
    {[kind |-> IF c.op = "fetch-secret" THEN "secret" ELSE "parameter",
      resource |-> BuildTimeEnv[c.idVar]] : c \in FetchCommands}

Granted == {[kind |-> g.kind, resource |-> g.resource] : g \in grants}

GivenCredentials ==
    { [kind |-> "secret", resource |-> props.dbSecret.secretArn],
      [kind |-> "parameter", resource |-> props.anonKey.parameterName],
      [kind |-> "parameter", resource |-> props.serviceRoleKey.parameterName] }

SameIdentifiersAsPrev ==
    Identifiers(prev.nodePath, prev.props, prev.appId)
        = Identifiers(nodePath, props, assignedAppId)

SameOptionalPropsAsPrev ==
    /\ prev.props.sourceBranch = props.sourceBranch
    /\ prev.props.appRoot = props.appRoot

(***************************************************************************)
(* C1                                                                      *)
(***************************************************************************)
\* C1 as stated: in the Logging Policy, neither the first statement (PushLogs)
\* nor the second (CreateLogGroup) has a resource pattern that matches the log
\* group, or a log stream, of an application other than this one.
C1_FirstTwoStatementsOwnAppOnly ==
    amplifySSRLoggingPolicy /= Null =>
        \A i \in {1, 2} : \A a \in AppIds \ {app.appId} :
            ~ReachesApp(amplifySSRLoggingPolicy.statements[i], a)

\* C1 as amended: the first statement names this application's appId and no
\* other, reaches this application's log streams and reaches no other
\* application; the second statement names no application at all: it matches
\* the log group of every application under /aws/amplify/ and no log group
\* outside that prefix.
C1_PushLogsOwnAppCreateLogGroupPrefix ==
    amplifySSRLoggingPolicy /= Null =>
        LET st == amplifySSRLoggingPolicy.statements
        IN  /\ st[1].sid = "PushLogs" /\ st[2].sid = "CreateLogGroup"
            /\ NamedApps(st[1]) = {app.appId}
            /\ \A n \in StreamNames : Covers(st[1], LogStreamArn(app.appId, n))
            /\ \A a \in AppIds \ {app.appId} : ~ReachesApp(st[1], a)
            /\ NamedApps(st[2]) = {}
            /\ \A a \in AppIds : Covers(st[2], LogGroupArn(a))
            /\ \A g \in ForeignLogGroups : ~Covers(st[2], ForeignLogGroupArn(g))

C1_Witness ==
    /\ Completed
    /\ amplifySSRLoggingPolicy /= Null
    /\ amplifySSRLoggingPolicy.policyName \in role.policies
    /\ \E a \in AppIds : a /= app.appId

(***************************************************************************)
(* C2                                                                      *)
(***************************************************************************)
\* C2: two completed passes whose inputs agree on every identifier (and on the
\* optional props) but were run over different stored secret values produce the
\* same configuration: source binding, role and grants, build spec, App with its
\* environment variables, branch with its overlay, policy and branch URL.
C2_ConfigIndependentOfSecretValues ==
    (Completed /\ prev /= Null /\ SameIdentifiersAsPrev /\ SameOptionalPropsAsPrev)
        => Config = prev.config

C2_Witness ==
    /\ Completed
    /\ prev /= Null
    /\ SameIdentifiersAsPrev
    /\ SameOptionalPropsAsPrev
    /\ prev.store.password /= store.password
    /\ prev.store.anonKey /= store.anonKey
    /\ prev.store.serviceKey /= store.serviceKey
    /\ prev.store.githubToken /= store.githubToken

(***************************************************************************)
(* C3                                                                      *)
(***************************************************************************)
\* C3: once the App exists, the credentials the pre-build commands fetch (each
\* command's variable resolved in the build's environment) are exactly the
\* credentials read-granted to the role, and both are the three given inputs.
C3_FetchedEqualsGranted ==
    app /= Null =>
        /\ Fetched = Granted
        /\ Granted = GivenCredentials
        /\ \A g \in grants : g.grantee = role.id /\ app.role = role.id

C3_Witness ==
    /\ Completed
    /\ props.anonKey.parameterName /= props.serviceRoleKey.parameterName
    /\ Cardinality(Fetched) = 3

(***************************************************************************)
(* C4                                                                      *)
(***************************************************************************)
\* C4: in every state of a pass, the app-root values injected so far are the
\* same: the build spec's applications[1].appRoot, the App's
\* AMPLIFY_MONOREPO_APP_ROOT, and the branch's AMPLIFY_MONOREPO_APP_ROOT, both
\* as given to addBranch and as set by addEnvironment.
C4_AppRootSameEverywhere ==
    /\ (app /= Null /\ buildSpec /= Null) =>
          /\ app.environmentVariables.AMPLIFY_MONOREPO_APP_ROOT
                = buildSpec.applications[1].appRoot
          /\ app.buildSpec = buildSpec
    /\ prodBranch /= Null =>
          /\ prodBranch.environmentVariables.AMPLIFY_MONOREPO_APP_ROOT
                = app.environmentVariables.AMPLIFY_MONOREPO_APP_ROOT
          /\ prodBranch.environmentVariables.AMPLIFY_MONOREPO_APP_ROOT
                = buildSpec.applications[1].appRoot

C4_Witness ==
    /\ Completed
    /\ props.appRoot /= Absent
    /\ prodBranch.environmentVariables.AMPLIFY_MONOREPO_APP_ROOT = "apps/studio"

(***************************************************************************)
(* C5                                                                      *)
(***************************************************************************)
\* C5: the exposed prodBranchUrl of a completed pass is
\* https://master.<appId>.<platform default domain>, with <appId> the
\* identifier the platform assigned, whatever the inputs.
C5_ProdBranchUrl ==
    Completed =>
        /\ prodBranchUrl = "https://master." \o assignedAppId \o ".amplifyapp.com"
        /\ app.appId = assignedAppId

C5_Witness ==
    /\ Completed
    /\ props.sourceBranch /= Absent
    /\ prodBranchUrl /= Absent

(***************************************************************************)
(* C6                                                                      *)
(***************************************************************************)
\* C6: the source binding and the role exist whenever the App exists; the App
\* exists whenever the branch, the policy or the branch URL exists; and no
\* statement reads an object that has not been constructed (the pass never
\* aborts).
C6_DependencyOrder ==
    /\ status /= "aborted"
    /\ app /= Null => (gitHubProvider /= Null /\ role /= Null /\ buildSpec /= Null)
    /\ prodBranch /= Null => app /= Null
    /\ amplifySSRLoggingPolicy /= Null => app /= Null
    /\ prodBranchUrl /= Absent => (app /= Null /\ prodBranch /= Null)
    /\ Completed =>
          /\ amplifySSRLoggingPolicy.policyName = "AmplifySSRLoggingPolicy-" \o app.appId
          /\ NamedApps(amplifySSRLoggingPolicy.statements[1]) = {app.appId}

C6_Witness ==
    /\ Completed
    /\ app /= Null /\ prodBranch /= Null /\ amplifySSRLoggingPolicy /= Null

(***************************************************************************)
(* C7                                                                      *)
(***************************************************************************)
\* C7: the App always carries the one catch-all rule '/<*>' -> '/index.html'
\* with the not-found-rewrite status; the compute mode is not yet WEB_COMPUTE
\* when the App has just been created, the override sets it on the created
\* App, and every completed pass has it.
C7_ComputeModeAndCatchAll ==
    /\ app /= Null =>
          app.customRules =
              << [source |-> "/<*>", target |-> "/index.html",
                  status |-> "NOT_FOUND_REWRITE"] >>
    /\ At("overridePlatform") => (app /= Null /\ app.platform /= "WEB_COMPUTE")
    /\ (At("addBranch") \/ Completed) => app.platform = "WEB_COMPUTE"

C7_Witness ==
    /\ Completed
    /\ app.platform = "WEB_COMPUTE"
    /\ Len(app.customRules) = 1

(***************************************************************************)
(* C8                                                                      *)
(***************************************************************************)
\* C8 as stated: the source binding the pass produces references the pair
\* owner "acme", repository "app".
C8_BindingIsGivenPair ==
    gitHubProvider /= Null =>
        (gitHubProvider.owner = "acme" /\ gitHubProvider.repository = "app")

\* C8 as amended: the source binding holds one owner/repository pair, the pair
\* ProvorovOleksii/supabase written in the constructor, for every input; the
\* App is bound to that binding.
C8_BindingIsFixedPair ==
    /\ gitHubProvider /= Null =>
          /\ gitHubProvider.owner = "ProvorovOleksii"
          /\ gitHubProvider.repository = "supabase"
    /\ app /= Null => app.sourceCodeProvider = gitHubProvider

C8_Witness ==
    /\ Completed
    /\ gitHubProvider /= Null
    /\ app.sourceCodeProvider.owner = "ProvorovOleksii"

(***************************************************************************)
(* C9                                                                      *)
(***************************************************************************)
\* C9: the branch's NEXT_PUBLIC_SITE_URL is https://<branchName>.<appId>.amplifyapp.com
\* with <branchName> the production branch's own name, and so equals the
\* exposed prodBranchUrl.
C9_SiteUrlIsBranchUrl ==
    /\ prodBranch /= Null =>
          prodBranch.environmentVariables.NEXT_PUBLIC_SITE_URL
              = "https://" \o prodBranch.branchName \o "." \o app.appId \o ".amplifyapp.com"
    /\ Completed => prodBranch.environmentVariables.NEXT_PUBLIC_SITE_URL = prodBranchUrl

(***************************************************************************)
(* C10                                                                     *)
(***************************************************************************)
\* C10: two completed passes whose inputs differ at most in sourceBranch and
\* appRoot produce the same configuration; in every completed pass the branch
\* is 'master' and the app root 'apps/studio'.
C10_OptionalPropsHaveNoEffect ==
    /\ Completed =>
          /\ prodBranch.branchName = "master"
          /\ buildSpec.applications[1].appRoot = "apps/studio"
          /\ app.environmentVariables.AMPLIFY_MONOREPO_APP_ROOT = "apps/studio"
    /\ (Completed /\ prev /= Null /\ SameIdentifiersAsPrev /\ prev.store = store)
          => Config = prev.config

C10_Witness ==
    /\ Completed
    /\ prev /= Null
    /\ SameIdentifiersAsPrev
    /\ prev.store = store
    /\ prev.props.sourceBranch /= props.sourceBranch
    /\ prev.props.appRoot /= props.appRoot

====
